---- MODULE Spec2Model ----
(***************************************************************************)
(* Model of machine_opt.py: the grid-sweep optimizer that picks the axial  *)
(* depth, radial depth and feed per tooth maximising the material removal  *)
(* rate under a cutting-force limit.                                       *)
(*                                                                         *)
(* Numbers.  The program computes in binary floating point; the model      *)
(* computes the same formulas in exact arithmetic on integers, each        *)
(* quantity in a fixed unit that makes it an integer:                      *)
(*   lengths (depths, feed, diameter)   1 mm                               *)
(*   angles                             pi/6 rad                           *)
(*   engaged flutes                     1/12 flute                         *)
(*   tool wear factor                   1/10                               *)
(*   cutting force                      1/120 N                            *)
(*   rpm, feed rate, mrr                1/(pi * tool_diameter) of the      *)
(*                                      program's unit                     *)
(* A value that can be not-a-number is a record [nan, v]; comparisons with *)
(* a not-a-number are false, as in IEEE 754.                               *)
(*                                                                         *)
(* Spec takes the axis bounds among the multiples of Resolution, where no  *)
(* operation of the grid construction rounds.  FloatSpec is the grid       *)
(* construction alone, with the program's 100 samples per axis, in binary  *)
(* floating point of Precision significant bits rounded to nearest, ties   *)
(* to even (the program's doubles have 53), each float held as a multiple  *)
(* of 1/Scale.                                                             *)
(***************************************************************************)
EXTENDS Integers, Sequences, FiniteSets

\* Samples per axis in Spec, standing for the program's 100 (arange step =
\* range / 100); FloatSpec uses Samples, the program's value.
Resolution == 2

\* Axis bounds of the settings range over 0, Resolution, .., MaxBound * Resolution
\* (multiples of Resolution, so that range / Resolution is exact).
MaxBound == 2

\* Surface speed of the swept recipe, m/min.
SurfaceSpeed == 300

AxisBounds == {Resolution * a : a \in 0..MaxBound}

FeedBounds == {Resolution, 2 * Resolution}

ForceLimits == {0, 1, 3, 9}

ChipAreas == {0, 5}

SpindlePowers == {1, 2}

Materials == {[ultimate_tensile_strength |-> 1]}

\* tool_wear_factor 1.1 is 11 tenths.  The diameters are those for which every
\* integer radial depth gives an arcsine of the table of Arcsin.
Tools ==
    { [tool_diameter |-> 2, number_of_flutes |-> 2, tool_wear_factor |-> 11],
      [tool_diameter |-> 4, number_of_flutes |-> 3, tool_wear_factor |-> 11] }

OptimizerSettings ==
    [ min_axial_doc : AxisBounds, max_axial_doc : AxisBounds,
      min_radial_doc : AxisBounds, max_radial_doc : AxisBounds,
      min_feed_per_tooth : FeedBounds, max_feed_per_tooth : FeedBounds,
      min_chip_cross_sectional_area : ChipAreas,
      max_spindle_power : SpindlePowers,
      max_cutting_force : ForceLimits ]

VARIABLES material, settings, my_tool, recipe, pc, idx, out, force

vars == <<material, settings, my_tool, recipe, pc, idx, out, force>>

-----------------------------------------------------------------------------
\* Floating-point values that may be not-a-number.

Num(x) == [nan |-> FALSE, v |-> x]

NaN == [nan |-> TRUE, v |-> 0]

\* a > b on floats: false when either side is not-a-number.
Gt(a, b) == ~a.nan /\ ~b.nan /\ a.v > b.v

\* a <= b on floats: false when either side is not-a-number.
Le(a, b) == ~a.nan /\ ~b.nan /\ a.v <= b.v

\* a * b on floats, b a number.
Times(a, b) == IF a.nan THEN NaN ELSE Num(a.v * b)

-----------------------------------------------------------------------------
\* numpy.arange(start, stop, step)

\* ceil(p / q), q # 0
CeilDiv(p, q) == IF q > 0 THEN -((-p) \div q) ELSE -(p \div (-q))

\* arange divides by step to find its length: a zero step raises.
ArangeRaises(start, stop, step) == step = 0

ArangeLen(start, stop, step) ==
    IF CeilDiv(stop - start, step) > 0 THEN CeilDiv(stop - start, step) ELSE 0

Arange(start, stop, step) ==
    [n \in 0..(ArangeLen(start, stop, step) - 1) |-> start + n * step]

\* OptimizerSettings.axial_doc / radial_doc / feed_per_tooth:
\* range = max - min; arange(min, max, range / Resolution)
AxisStep(min, max) == (max - min) \div Resolution

AxisRaises(min, max) == ArangeRaises(min, max, AxisStep(min, max))

Axis(min, max) == Arange(min, max, AxisStep(min, max))

axial_doc(s) == Axis(s.min_axial_doc, s.max_axial_doc)

radial_doc(s) == Axis(s.min_radial_doc, s.max_radial_doc)

feed_per_tooth(s) == Axis(s.min_feed_per_tooth, s.max_feed_per_tooth)

Len0(axis) == Cardinality(DOMAIN axis)

-----------------------------------------------------------------------------
\* Recipe.  A swept recipe holds the three axes; Candidate is the element of
\* the broadcast of the axes at one index, a recipe of scalars.  A quantity
\* evaluated on the arrays is, at index (i, j, k), the quantity of
\* Candidate(r, i, j, k): the formulas are element-wise.

Candidate(r, i, j, k) ==
    [ tool |-> r.tool, feed_per_tooth |-> r.feed_per_tooth[k],
      surface_speed |-> r.surface_speed, radial_doc |-> r.radial_doc[j],
      axial_doc |-> r.axial_doc[i] ]

\* 1000 * surface_speed / (pi * tool_diameter), in units of 1/(pi * tool_diameter)
rpm(r) == 1000 * r.surface_speed

feed_rate(r) == r.feed_per_tooth * rpm(r) * r.tool.number_of_flutes

mrr(r) == (feed_rate(r) * r.axial_doc * r.radial_doc) \div 1000

chip_cross_sectional_area(r) == r.axial_doc * r.feed_per_tooth

\* numpy.arcsin(num / den), den > 0, in units of pi/6: exact at -1, -1/2, 0,
\* 1/2 and 1, not-a-number outside [-1, 1].
Arcsin(num, den) ==
    CASE num > den \/ num < -den -> NaN
      [] num = -den -> Num(-3)
      [] 2 * num = -den -> Num(-1)
      [] num = 0 -> Num(0)
      [] 2 * num = den -> Num(1)
      [] num = den -> Num(3)

\* flutes * (arcsin((2 * rdoc - dia) / dia) + arcsin(1)) / 2 / pi, in twelfths
avg_engaged_flutes(r) ==
    LET dia == r.tool.tool_diameter
        flutes == r.tool.number_of_flutes
        a == Arcsin(2 * r.radial_doc - dia, dia)
    IN  IF a.nan THEN NaN ELSE Num(flutes * (a.v + Arcsin(1, 1).v))

\* sigma * flutes * wear * area, in 1/120 N
cutting_force(m, r) ==
    Times(avg_engaged_flutes(r),
          m.ultimate_tensile_strength * r.tool.tool_wear_factor
              * chip_cross_sectional_area(r))

\* settings.max_cutting_force in 1/120 N
Limit(s) == Num(120 * s.max_cutting_force)

\* Mutant of Masked: the minimum chip cross-sectional area enforced as well.
MaskedAlsoByChipArea(m, r, s) ==
    \/ Gt(cutting_force(m, r), Num(120 * s.max_cutting_force))
    \/ chip_cross_sectional_area(r) < s.min_chip_cross_sectional_area

\* The mask of Optimizer.score: cond = force > settings.max_cutting_force
Masked(m, r, s) == Gt(cutting_force(m, r), Limit(s))

-----------------------------------------------------------------------------
\* The masked array of Optimizer.score, flattened in C (row-major) order, and
\* numpy.argmax / numpy.unravel_index over it.

Shape(r) == <<Len0(r.axial_doc), Len0(r.radial_doc), Len0(r.feed_per_tooth)>>

Size(r) == Shape(r)[1] * Shape(r)[2] * Shape(r)[3]

unravel_index(n, shape) ==
    <<n \div (shape[2] * shape[3]), (n \div shape[3]) % shape[2], n % shape[3]>>

ravel_index(ix, shape) == (ix[1] * shape[2] + ix[2]) * shape[3] + ix[3]

CandidateAt(r, ix) == Candidate(r, ix[1], ix[2], ix[3])

\* MaskedArray.argmax fills the masked entries with -inf before the argmax.
Filled(m, r, s, n) ==
    LET c == CandidateAt(r, unravel_index(n, Shape(r)))
    IN  IF Masked(m, c, s) THEN [neginf |-> TRUE, v |-> 0]
        ELSE [neginf |-> FALSE, v |-> mrr(c)]

Less(a, b) == IF b.neginf THEN FALSE ELSE (a.neginf \/ a.v < b.v)

\* The scan of argmax from flat index n on, best being the index of the largest
\* entry before n and top that entry: a later entry replaces it only when
\* strictly larger.
RECURSIVE Scan(_, _, _, _, _, _)
Scan(m, r, s, n, best, top) ==
    IF n >= Size(r) THEN best
    ELSE LET e == Filled(m, r, s, n)
         IN  IF Less(top, e) THEN Scan(m, r, s, n + 1, n, e)
             ELSE Scan(m, r, s, n + 1, best, top)

\* The first flat index holding the maximum.
argmax(m, r, s) == Scan(m, r, s, 1, 0, Filled(m, r, s, 0))

\* idx of Optimizer.compute_best
BestIndex(m, r, s) == unravel_index(argmax(m, r, s), Shape(r))

\* Mutant of BestRecipe: the axial and radial indices exchanged.
BestRecipeSwapped(r, ix) ==
    [ tool |-> r.tool, axial_doc |-> r.axial_doc[ix[2]],
      radial_doc |-> r.radial_doc[ix[1]],
      feed_per_tooth |-> r.feed_per_tooth[ix[3]],
      surface_speed |-> r.surface_speed ]

\* The Recipe compute_best builds from idx.
BestRecipe(r, ix) ==
    LET adoc_idx == ix[1]
        rdoc_idx == ix[2]
        fpt_idx == ix[3]
    IN  [ tool |-> r.tool, axial_doc |-> r.axial_doc[adoc_idx],
          radial_doc |-> r.radial_doc[rdoc_idx],
          feed_per_tooth |-> r.feed_per_tooth[fpt_idx],
          surface_speed |-> r.surface_speed ]

\* numpy.argmax raises on an empty array.
ArgmaxRaises(r) == Size(r) = 0

-----------------------------------------------------------------------------
\* The program: the settings and the tool are given; the script builds the
\* swept recipe from the settings, then calls compute_best once.

NoRecipe == [tool |-> "none"]

NoIndex == <<>>

Init ==
    /\ material \in Materials
    /\ my_tool \in Tools
    /\ settings \in OptimizerSettings
    /\ recipe = NoRecipe
    /\ pc = "settings"
    /\ idx = NoIndex
    /\ out = NoRecipe
    /\ force = NaN

SettingsRaise(s) ==
    \/ AxisRaises(s.min_axial_doc, s.max_axial_doc)
    \/ AxisRaises(s.min_radial_doc, s.max_radial_doc)
    \/ AxisRaises(s.min_feed_per_tooth, s.max_feed_per_tooth)

SweptRecipe(t, s) ==
    [ tool |-> t, axial_doc |-> axial_doc(s), radial_doc |-> radial_doc(s),
      surface_speed |-> SurfaceSpeed, feed_per_tooth |-> feed_per_tooth(s) ]

\* my_recipe = Recipe(tool, axial_doc=my_settings.axial_doc, ...)
MakeRecipe ==
    /\ pc = "settings"
    /\ IF SettingsRaise(settings)
       THEN pc' = "raised" /\ recipe' = recipe
       ELSE pc' = "recipe" /\ recipe' = SweptRecipe(my_tool, settings)
    /\ UNCHANGED <<material, settings, my_tool, idx, out, force>>

\* my_state.compute_best()
ComputeBest ==
    /\ pc = "recipe"
    /\ IF ArgmaxRaises(recipe)
       THEN pc' = "raised" /\ UNCHANGED <<idx, out, force>>
       ELSE LET ix == BestIndex(material, recipe, settings)
            IN  /\ pc' = "returned"
                /\ idx' = ix
                /\ out' = BestRecipe(recipe, ix)
                /\ force' = cutting_force(material, CandidateAt(recipe, ix))
    /\ UNCHANGED <<material, settings, my_tool, recipe>>

Next == MakeRecipe \/ ComputeBest

Spec == Init /\ [][Next]_vars

-----------------------------------------------------------------------------
\* Vocabulary of the properties.

Built == pc \in {"recipe", "returned"}

Indices(r) ==
    (DOMAIN r.axial_doc) \X (DOMAIN r.radial_doc) \X (DOMAIN r.feed_per_tooth)

\* A candidate is valid when its cutting force is at most max_cutting_force.
Valid(m, r, s, ix) == Le(cutting_force(m, CandidateAt(r, ix)), Limit(s))

SomeValid == \E ix \in Indices(recipe) : Valid(material, recipe, settings, ix)

\* The radial depth of a candidate lies outside [0, tool_diameter].
OutOfDomain(r, ix) ==
    \/ r.radial_doc[ix[2]] < 0
    \/ r.radial_doc[ix[2]] > r.tool.tool_diameter

SomeOutOfDomain == \E ix \in Indices(recipe) : OutOfDomain(recipe, ix)

\* ix holds the largest material removal rate among the valid candidates.
BestValid(ix) ==
    /\ Valid(material, recipe, settings, ix)
    /\ \A o \in Indices(recipe) :
          Valid(material, recipe, settings, o)
              => mrr(CandidateAt(recipe, o)) <= mrr(CandidateAt(recipe, ix))

\* (i, j, k) before (i', j', k') in row-major order
Before(a, b) == ravel_index(a, Shape(recipe)) < ravel_index(b, Shape(recipe))

AxisDegenerate(s) ==
    \/ s.min_axial_doc >= s.max_axial_doc
    \/ s.min_radial_doc >= s.max_radial_doc
    \/ s.min_feed_per_tooth >= s.max_feed_per_tooth

\* C1: a Recipe returned by compute_best has a cutting force, recomputed from
\* its scalars, of at most settings.max_cutting_force.
C1_ReturnedForceWithinLimit ==
    pc = "returned" => Le(cutting_force(material, out), Limit(settings))

\* C2: when no candidate of the grid has a cutting force of at most
\* max_cutting_force, compute_best ends infeasible and returns no Recipe.
C2_AllMaskedIsInfeasible ==
    (Built /\ ~SomeValid) => pc # "returned"

\* C3: when some candidate is valid, the index compute_best selects is a valid
\* candidate whose material removal rate is at least that of every valid one.
C3_SelectsBestValid ==
    (pc = "returned" /\ SomeValid) => BestValid(idx)

\* C4: when several valid candidates share the largest material removal rate,
\* compute_best selects the first of them in row-major order.
C4_FirstOfTiedWins ==
    (pc = "returned"
        /\ \E a, b \in Indices(recipe) : a # b /\ BestValid(a) /\ BestValid(b))
    => /\ BestValid(idx)
       /\ \A o \in Indices(recipe) : BestValid(o) => ~Before(o, idx)

\* C5: an axis with min >= max has no samples, and the search then ends
\* infeasible: it neither raises nor returns a Recipe.
C5_DegenerateAxisIsInfeasible ==
    AxisDegenerate(settings) =>
        /\ pc \notin {"raised", "returned"}
        /\ Built => Size(recipe) = 0

\* C7: with everything but max_cutting_force equal, a larger max_cutting_force
\* never gives a result with a smaller material removal rate.
C7_MonotoneInForceLimit ==
    pc = "returned" =>
        \A f \in ForceLimits :
            settings.max_cutting_force <= f =>
                mrr(out) <= mrr(BestRecipe(recipe,
                                BestIndex(material, recipe,
                                    [settings EXCEPT !.max_cutting_force = f])))

\* C8: when a candidate has a radial depth outside [0, tool_diameter], the
\* evaluation fails with a domain error: compute_best returns nothing, and no
\* candidate with an undefined cutting force is returned.
C8_DomainErrorAborts ==
    pc = "returned" =>
        /\ ~SomeOutOfDomain
        /\ ~cutting_force(material, out).nan

\* The samples of one axis built from (min, max): Resolution of them, from min,
\* evenly spaced by (max - min) / Resolution, increasing, within [min, max).
AxisWellFormed(min, max, axis) ==
    /\ DOMAIN axis = 0..(Resolution - 1)
    /\ axis[0] = min
    /\ \A n \in 1..(Resolution - 1) :
          /\ Resolution * (axis[n] - axis[n - 1]) = max - min
          /\ axis[n - 1] < axis[n]
    /\ \A n \in DOMAIN axis : min <= axis[n] /\ axis[n] < max

\* Where no division rounds (Spec: the bounds are multiples of Resolution), an
\* axis with min < max has exactly Resolution samples, evenly spaced from min
\* within [min, max).
ExactAxisSamples ==
    Built =>
        /\ settings.min_axial_doc < settings.max_axial_doc
              => AxisWellFormed(settings.min_axial_doc, settings.max_axial_doc,
                                recipe.axial_doc)
        /\ settings.min_radial_doc < settings.max_radial_doc
              => AxisWellFormed(settings.min_radial_doc, settings.max_radial_doc,
                                recipe.radial_doc)
        /\ settings.min_feed_per_tooth < settings.max_feed_per_tooth
              => AxisWellFormed(settings.min_feed_per_tooth,
                                settings.max_feed_per_tooth, recipe.feed_per_tooth)

Search(m, t, s) ==
    IF SettingsRaise(s) THEN [raised |-> TRUE]
    ELSE LET r == SweptRecipe(t, s)
             ix == BestIndex(m, r, s)
         IN  [raised |-> FALSE, idx |-> ix, out |-> BestRecipe(r, ix)]

\* C10: the index chosen and the Recipe returned are those of every search
\* whose inputs differ only in min_chip_cross_sectional_area and
\* max_spindle_power.
C10_UnenforcedSettingsIgnored ==
    pc = "returned" =>
        \A a \in ChipAreas, p \in SpindlePowers :
            Search(material, my_tool,
                   [settings EXCEPT !.min_chip_cross_sectional_area = a,
                                    !.max_spindle_power = p])
                = [raised |-> FALSE, idx |-> idx, out |-> out]

\* A valid candidate is returned whose chip cross-sectional area is below
\* min_chip_cross_sectional_area.
C10_Witness ==
    /\ pc = "returned"
    /\ Valid(material, recipe, settings, idx)
    /\ mrr(out) > 0
    /\ chip_cross_sectional_area(out) < settings.min_chip_cross_sectional_area

-----------------------------------------------------------------------------
\* The grid construction in binary floating point.

\* Samples per axis: arange(min, max, range / 100).
Samples == 100

\* Significant bits of a float.
Precision == 10

\* The axis bounds of FloatSpec range over 0..MaxFloat.
MaxFloat == 9

\* Every float met here is a multiple of 1/Scale: the least is a step of
\* 1/Samples > 2^(-7), whose last bit is worth at least 2^(-7 - (Precision - 1)).
Scale == 2^(Precision + 6)

\* a/b, a > 0 and b > 0, rounded to Precision significant bits, ties to even,
\* in units of 1/Scale; u/d is the power of two the significand is scaled by.
RECURSIVE Significand(_, _, _, _)
Significand(a, b, u, d) ==
    IF a * d >= 2^Precision * b * u
    THEN IF d > 1 THEN Significand(a, b, u, d \div 2) ELSE Significand(a, b, 2 * u, d)
    ELSE IF a * d < 2^(Precision - 1) * b * u
    THEN IF u > 1 THEN Significand(a, b, u \div 2, d) ELSE Significand(a, b, u, 2 * d)
    ELSE LET fl == (a * d) \div (b * u)
             rem == (a * d) % (b * u)
             m == IF 2 * rem > b * u \/ (2 * rem = b * u /\ fl % 2 = 1)
                  THEN fl + 1 ELSE fl
         IN  m * u * (Scale \div d)

RECURSIVE RoundPos(_, _)
RoundPos(a, b) ==
    IF a = 0 THEN 0
    ELSE IF a % 2 = 0 /\ b % 2 = 0 THEN RoundPos(a \div 2, b \div 2)
    ELSE Significand(a, b, 1, 1)

\* The float nearest to a/b, b > 0.
Round(a, b) == IF a < 0 THEN -RoundPos(-a, b) ELSE RoundPos(a, b)

FAdd(x, y) == Round(x + y, Scale)

FSub(x, y) == Round(x - y, Scale)

\* n * x, n an integer
FMul(n, x) == Round(n * x, Scale)

\* x / y, y # 0
FDiv(x, y) == IF y < 0 THEN Round(-x, -y) ELSE Round(x, y)

\* ceil of the float x, an integer
Ceil(x) == -((-x) \div Scale)

\* numpy.arange on floats: the length is ceil((stop - start) / step); the
\* first two samples are start and start + step, and sample n >= 2 is
\* start + n * delta with delta the difference of the first two.
FloatArangeLen(start, stop, step) ==
    LET len == Ceil(FDiv(FSub(stop, start), step))
    IN  IF len > 0 THEN len ELSE 0

FloatArange(start, stop, step) ==
    LET next == FAdd(start, step)
        delta == FSub(next, start)
    IN  [n \in 0..(FloatArangeLen(start, stop, step) - 1) |->
            IF n = 0 THEN start
            ELSE IF n = 1 THEN next
            ELSE FAdd(start, FMul(n, delta))]

\* range = max - min; range / 100
FloatStep(min, max) == FDiv(FSub(max * Scale, min * Scale), Samples * Scale)

FloatAxis(min, max) == FloatArange(min * Scale, max * Scale, FloatStep(min, max))

FloatSettingsRaise(s) ==
    \/ ArangeRaises(s.min_axial_doc, s.max_axial_doc,
                    FloatStep(s.min_axial_doc, s.max_axial_doc))
    \/ ArangeRaises(s.min_radial_doc, s.max_radial_doc,
                    FloatStep(s.min_radial_doc, s.max_radial_doc))
    \/ ArangeRaises(s.min_feed_per_tooth, s.max_feed_per_tooth,
                    FloatStep(s.min_feed_per_tooth, s.max_feed_per_tooth))

FloatSweptRecipe(t, s) ==
    [ tool |-> t,
      axial_doc |-> FloatAxis(s.min_axial_doc, s.max_axial_doc),
      radial_doc |-> FloatAxis(s.min_radial_doc, s.max_radial_doc),
      surface_speed |-> SurfaceSpeed,
      feed_per_tooth |-> FloatAxis(s.min_feed_per_tooth, s.max_feed_per_tooth) ]

FloatBounds == 0..MaxFloat

FloatSettings ==
    [ min_axial_doc : FloatBounds, max_axial_doc : FloatBounds,
      min_radial_doc : {0, 1}, max_radial_doc : {1, MaxFloat},
      min_feed_per_tooth : {0}, max_feed_per_tooth : {1},
      min_chip_cross_sectional_area : {0},
      max_spindle_power : {1},
      max_cutting_force : {1} ]

FloatInit ==
    /\ material \in Materials
    /\ my_tool \in Tools
    /\ settings \in FloatSettings
    /\ recipe = NoRecipe
    /\ pc = "settings"
    /\ idx = NoIndex
    /\ out = NoRecipe
    /\ force = NaN

\* my_recipe = Recipe(tool, axial_doc=my_settings.axial_doc, ...)
FloatMakeRecipe ==
    /\ pc = "settings"
    /\ IF FloatSettingsRaise(settings)
       THEN pc' = "raised" /\ recipe' = recipe
       ELSE pc' = "recipe" /\ recipe' = FloatSweptRecipe(my_tool, settings)
    /\ UNCHANGED <<material, settings, my_tool, idx, out, force>>

FloatNext == FloatMakeRecipe

FloatSpec == FloatInit /\ [][FloatNext]_vars

\* The samples of one float axis built from (min, max): Samples of them, the
\* first min, increasing, within [min, max).
FloatAxisWellFormed(min, max, axis) ==
    /\ DOMAIN axis = 0..(Samples - 1)
    /\ axis[0] = min * Scale
    /\ \A n \in (DOMAIN axis) \ {0} : axis[n - 1] < axis[n]
    /\ \A n \in DOMAIN axis : min * Scale <= axis[n] /\ axis[n] < max * Scale

\* C6: an axis with min < max has exactly N samples (N = 100), the first is
\* min, the samples increase strictly and every sample s has
\* min <= s < max.  (The even spacing by (max - min)/N, which holds of floats
\* only to rounding, is left out: the formula is weaker than the claim.)
C6_AxisSamples ==
    pc = "recipe" =>
        /\ settings.min_axial_doc < settings.max_axial_doc
              => FloatAxisWellFormed(settings.min_axial_doc, settings.max_axial_doc,
                                     recipe.axial_doc)
        /\ settings.min_radial_doc < settings.max_radial_doc
              => FloatAxisWellFormed(settings.min_radial_doc,
                                     settings.max_radial_doc, recipe.radial_doc)
        /\ settings.min_feed_per_tooth < settings.max_feed_per_tooth
              => FloatAxisWellFormed(settings.min_feed_per_tooth,
                                     settings.max_feed_per_tooth,
                                     recipe.feed_per_tooth)

====
